---- MODULE Spec2Model ----
(***************************************************************************)
(* Model of src/hotsearch_api.py: the hot-search analysis service.         *)
(*                                                                         *)
(*   clean_hot_value   the value normalizer (a pure function)              *)
(*   fetch_excel       the retrying source fetcher built on make_session   *)
(*   load_data         the dataset merger (defined twice in the module)    *)
(*   analyze           the /analyze request handler                        *)
(*                                                                         *)
(* Strings are sequences of one-character strings.  The scale marker       *)
(* U+4E07 (ten thousand) of the source is written "W" here.                *)
(* A Python float is modelled by the exact decimal fraction n/d it was     *)
(* parsed from (d a power of ten, trailing zeros removed).                 *)
(***************************************************************************)
EXTENDS Integers, Sequences, FiniteSets, TLC

VARIABLES
    nx,        \* normalizer harness: the argument of clean_hot_value
    nres,      \* normalizer harness: its outcome (Pending until called)
    furl,      \* fetcher harness: the platform whose url fetch_excel is given
    fpc,       \* fetcher harness: "get", "fallback_get" or "done"
    fretry,    \* fetcher harness: the Retry counters left in the running GET
    fres,      \* fetcher harness: the outcome of fetch_excel
    req,       \* analyze: the JSON body of the request being served
    world,     \* analyze: the state of the remote files during the request
    pc,        \* analyze: "start", "parsed", "loaded", "sorted" or "done"
    limit,     \* analyze: int(data.get("limit", 0))
    fetchLog,  \* analyze: the retrievals load_data made, in order
    loaded,    \* analyze: df as load_data returned it
    filtered,  \* analyze: the rows of df after the topic filter (line 126)
    sorted,    \* analyze: the rows of df after sort_values (line 129)
    view,      \* analyze: the rows returned (line 135) or summarized (line 142)
    resp       \* analyze: the JSON body returned

normVars == <<nx, nres>>
fetchVars == <<furl, fpc, fretry, fres>>
pipeVars == <<req, world, pc, limit, fetchLog, loaded, filtered, sorted, view, resp>>
vars == <<normVars, fetchVars, pipeVars>>

----------------------------------------------------------------------------
(* Bounds of the model                                                     *)

MaxLen == 4        \* longest raw magnitude string the normalizer is tried on

----------------------------------------------------------------------------
(* Python values                                                           *)

Digits == {"0", "1", "2", "3", "4", "5", "6", "7", "8", "9"}

ScaleMarker == "W"

\* None / NaN / an empty cell
Null == [kind |-> "null", s |-> <<>>, n |-> 0, d |-> 1]

PyStr(s) == [kind |-> "str", s |-> s, n |-> 0, d |-> 1]

PyInt(i) == [kind |-> "int", s |-> <<>>, n |-> i, d |-> 1]

\* the float n/d
PyFloat(n, d) == [kind |-> "float", s |-> <<>>, n |-> n, d |-> d]

DigitChar(k) ==
    CASE k = 0 -> "0" [] k = 1 -> "1" [] k = 2 -> "2" [] k = 3 -> "3"
      [] k = 4 -> "4" [] k = 5 -> "5" [] k = 6 -> "6" [] k = 7 -> "7"
      [] k = 8 -> "8" [] k = 9 -> "9"

DigitVal(c) == CHOOSE k \in 0..9 : DigitChar(k) = c

RECURSIVE NatToStr(_)
NatToStr(k) == IF k < 10 THEN <<DigitChar(k)>>
               ELSE Append(NatToStr(k \div 10), DigitChar(k % 10))

\* str(x) of the argument: a string is itself, an integer is its decimal
\* rendering with a leading "-" when negative.
str(x) == IF x.kind = "str" THEN x.s
          ELSE IF x.kind = "null" THEN <<"n", "a", "n">>
          ELSE IF x.n < 0 THEN <<"-">> \o NatToStr(-x.n) ELSE NatToStr(x.n)

\* pd.isna(x)
isna(x) == x.kind = "null"

----------------------------------------------------------------------------
(* re.findall(r"[\d.]+", s): the maximal runs of digits and dots, in order *)

IsRunChar(c) == c \in Digits \cup {"."}

RECURSIVE RunEnd(_, _)
\* last index of the run that starts at index i of s
RunEnd(s, i) == IF i < Len(s) /\ IsRunChar(s[i + 1]) THEN RunEnd(s, i + 1) ELSE i

RECURSIVE FindAllFrom(_, _)
FindAllFrom(s, i) ==
    IF i > Len(s) THEN <<>>
    ELSE IF IsRunChar(s[i])
         THEN <<SubSeq(s, i, RunEnd(s, i))>> \o FindAllFrom(s, RunEnd(s, i) + 1)
         ELSE FindAllFrom(s, i + 1)

findall(s) == FindAllFrom(s, 1)

----------------------------------------------------------------------------
(* float(run) for a run of digits and dots                                 *)

RECURSIVE Pow10(_)
Pow10(k) == IF k = 0 THEN 1 ELSE 10 * Pow10(k - 1)

RECURSIVE DigitsToNat(_)
DigitsToNat(ds) == IF ds = <<>> THEN 0
                   ELSE 10 * DigitsToNat(SubSeq(ds, 1, Len(ds) - 1)) + DigitVal(ds[Len(ds)])

RECURSIVE Reduce(_, _)
\* the same number with trailing zeros of the fraction removed
Reduce(n, d) == IF d > 1 /\ n % 10 = 0 THEN Reduce(n \div 10, d \div 10)
                ELSE [n |-> n, d |-> d]

DotsOf(run) == {i \in 1..Len(run) : run[i] = "."}

\* float() accepts "12", "1.", ".5", "1.5"; it rejects ".", "1.2.3", "..".
FloatValid(run) == Cardinality(DotsOf(run)) <= 1 /\ Len(run) > Cardinality(DotsOf(run))

FloatOf(run) ==
    LET dots == DotsOf(run)
        dot  == IF dots = {} THEN Len(run) + 1 ELSE CHOOSE i \in dots : TRUE
        ip   == SubSeq(run, 1, dot - 1)
        fp   == SubSeq(run, dot + 1, Len(run))
    IN Reduce(DigitsToNat(ip \o fp), Pow10(Len(fp)))

----------------------------------------------------------------------------
(* clean_hot_value                                                         *)

Returned(n, d) == [kind |-> "return", n |-> n, d |-> d, exc |-> "none"]

Raised(e) == [kind |-> "raise", n |-> 0, d |-> 1, exc |-> e]

Pending == [kind |-> "pending", n |-> 0, d |-> 1, exc |-> "none"]

\* value *= 10000
TimesTenThousand(f) == Reduce(f.n * 10000, f.d)

HasMarker(s) == \E i \in 1..Len(s) : s[i] = ScaleMarker

clean_hot_value(x) ==
    IF isna(x) THEN Returned(0, 1)
    ELSE LET s   == str(x)
             num == findall(s)
         IN IF num = <<>> THEN Returned(0, 1)
            ELSE IF ~FloatValid(num[1]) THEN Raised("ValueError")
            ELSE LET value == FloatOf(num[1])
                     out   == IF HasMarker(s) THEN TimesTenThousand(value) ELSE value
                 IN Returned(out.n, out.d)


----------------------------------------------------------------------------
(* make_session: the Retry policy mounted on SESSION                       *)

Platforms == <<"weibo", "toutiao", "baidu">>

PlatformSet == {Platforms[i] : i \in 1..Len(Platforms)}

\* platform_files[p]
platform_files(p) == <<"https://raw.githubusercontent.com/", p, "_hotsearch.xlsx">>

RetryTotal == 5

RetryConnect == 5

RetryRead == 5

status_forcelist == {502, 503, 504}

\* Retry(total=5, connect=5, read=5, ...): a fresh copy starts every GET
NewRetry == [total |-> RetryTotal, connect |-> RetryConnect, read |-> RetryRead]

\* What one attempt of a GET can meet on the wire.
ConnectErrors == {"ConnectionRefused", "ConnectTimeout"}

ReadErrors == {"ConnectionReset", "ReadTimeout"}

TlsErrors == {"CertificateVerifyFailed"}

Statuses == {200, 404, 500, 502, 503, 504}

Bodies == {"xlsx", "garbage"}

WireEvents == [kind : {"error"}, err : ConnectErrors \cup ReadErrors \cup TlsErrors,
               status : {0}, body : {"none"}]
              \cup [kind : {"response"}, err : {"none"}, status : Statuses, body : Bodies]

\* Retry.increment: the counters after one more failed attempt
Increment(r, ev) ==
    [total   |-> r.total - 1,
     connect |-> IF ev.kind = "error" /\ ev.err \in ConnectErrors
                 THEN r.connect - 1 ELSE r.connect,
     read    |-> IF ev.kind = "error" /\ ev.err \in ReadErrors
                 THEN r.read - 1 ELSE r.read]

\* Retry.is_exhausted
IsExhausted(r) == r.total < 0 \/ r.connect < 0 \/ r.read < 0

\* an attempt the Retry policy answers with another attempt (budget permitting)
Retryable(ev) == \/ ev.kind = "error"
                 \/ ev.kind = "response" /\ ev.status \in status_forcelist

\* the requests exception SESSION.get raises once the budget is exhausted
ExhaustedException(ev) ==
    IF ev.kind = "response" THEN "RetryError"
    ELSE IF ev.err \in TlsErrors THEN "SSLError"
    ELSE IF ev.err = "ConnectTimeout" THEN "ConnectTimeout"
    ELSE "ConnectionError"

----------------------------------------------------------------------------
(* fetch_excel                                                             *)

FetchReturned(p) ==
    [kind |-> "return", exc |-> "none", url |-> <<>>, cause |-> "none", payload |-> p]

FetchRaised(e, u, c) ==
    [kind |-> "raise", exc |-> e, url |-> u, cause |-> c, payload |-> "none"]

FetchPending ==
    [kind |-> "pending", exc |-> "none", url |-> <<>>, cause |-> "none", payload |-> "none"]

\* The statements of one try body once SESSION.get is past retrying:
\* r = SESSION.get(...); r.raise_for_status(); pd.read_excel(BytesIO(r.content))
TryBody(ev) ==
    IF Retryable(ev)
    THEN FetchRaised(ExhaustedException(ev), <<>>, "none")
    ELSE IF ev.status >= 400 THEN FetchRaised("HTTPError", <<>>, "none")
    ELSE IF ev.body # "xlsx" THEN FetchRaised("ValueError", <<>>, "none")
    ELSE FetchReturned(furl)

----------------------------------------------------------------------------
(* Normalizer harness: clean_hot_value applied to one raw magnitude        *)

NormChars == {"0", "1", "5", ".", ScaleMarker, "a", "-"}

SeqsUpTo(S, k) == UNION {[1..m -> S] : m \in 0..k}

NormInputs == {Null} \cup {PyInt(i) : i \in {-5, 0, 7, 120}}
                     \cup {PyStr(s) : s \in SeqsUpTo(NormChars, MaxLen)}

----------------------------------------------------------------------------
(* The remote files during one request                                     *)

MaxRows == 5       \* most rows one platform's file holds

MaxLimit == 2      \* largest "limit" a request carries

Cell(t, h) == [title |-> t, hot |-> h]

\* The rows a platform's file is cut from: titles in both cases, a missing
\* and a numeric title, magnitudes with and without the marker, with a second
\* run, with a sign, without any digit, empty, zero, and one tie (15 = 15.0).
FileRows(p) ==
    CASE p = "weibo" ->
           << Cell(PyStr(<<"A", "b">>), PyStr(<<"5", ScaleMarker>>)),
              Cell(PyStr(<<"b", "a">>), PyStr(<<"1", ".", "5", ScaleMarker>>)),
              Cell(Null,                PyStr(<<"1", "5">>)),
              Cell(PyStr(<<"B">>),      PyStr(<<"a">>)),
              Cell(PyStr(<<"a", "B">>), PyStr(<<"3", "1", "0">>)),
              Cell(PyStr(<<"A">>),      PyStr(<<"-", "7">>)) >>
      [] p = "toutiao" ->
           << Cell(PyStr(<<"b">>),           PyInt(1200)),
              Cell(PyStr(<<"A", "b">>),      PyStr(<<"2", ".", "5", ScaleMarker>>)),
              Cell(PyInt(1),                 PyStr(<<"a", "9">>)),
              Cell(PyStr(<<"a">>),           Null),
              Cell(PyStr(<<"B", "A">>),      PyStr(<<"3", ScaleMarker, "1">>)),
              Cell(PyStr(<<"a", ".", "b">>), PyStr(<<"4", "2">>)) >>
      [] p = "baidu" ->
           << Cell(PyStr(<<"A", "B">>), PyStr(<<"4", ".", "5", ScaleMarker>>)),
              Cell(PyStr(<<"b">>),      PyStr(<<"1", "5", ".", "0">>)),
              Cell(PyStr(<<"b", "b">>), PyInt(0)),
              Cell(PyStr(<<"a">>),      PyStr(<<"8", ScaleMarker>>)),
              Cell(PyStr(<<"B", "a">>), PyStr(<<"6", "0", "0">>)),
              Cell(PyStr(<<"b", "A">>), PyStr(<<ScaleMarker, ScaleMarker, "2">>)) >>

\* a magnitude cell whose first run is no number
BadNumber == PyStr(<<"1", ".", "2", ".", "3">>)

\* What can be wrong with one platform's file: the url does not load, the
\* sheet has no magnitude column, no title column, or a malformed magnitude.
BadKinds == {"down", "nomag", "notitle", "badnum"}

\* the rotations of a file's rows that are tried
Variants == {0, 1}

Worlds == [n : 0..MaxRows, variant : Variants, badp : {"none"}, badkind : {"none"}]
          \cup [n : 0..MaxRows, variant : Variants, badp : PlatformSet, badkind : BadKinds]

RowCount(w, p) == IF p = "toutiao" /\ w.variant % 2 = 1 /\ w.n > 0 THEN w.n - 1 ELSE w.n

FileRow(w, p, j) == FileRows(p)[((j - 1 + w.variant) % Len(FileRows(p))) + 1]

Is(w, p, k) == w.badp = p /\ w.badkind = k

\* the sheet of platform p as pandas parses it (a column the sheet lacks
\* reads as missing once frames are concatenated)
Sheet(w, p) ==
    [cols |-> {"title", "hot"} \ ((IF Is(w, p, "notitle") THEN {"title"} ELSE {})
                                  \cup (IF Is(w, p, "nomag") THEN {"hot"} ELSE {})),
     rows |-> [j \in 1..RowCount(w, p) |->
                 [index    |-> j - 1,
                  platform |-> "none",
                  title    |-> IF Is(w, p, "notitle") THEN Null ELSE FileRow(w, p, j).title,
                  hot      |-> IF Is(w, p, "nomag") THEN Null
                               ELSE IF Is(w, p, "badnum") /\ j = 1 THEN BadNumber
                               ELSE FileRow(w, p, j).hot]]]

----------------------------------------------------------------------------
(* load_data, both definitions                                             *)

Ok(v) == [kind |-> "return", exc |-> "none", value |-> v]

Raise(e) == [kind |-> "raise", exc |-> e, value |-> <<>>]

\* pd.read_excel(url): pandas opens the url itself, one attempt, no session
read_excel(w, p) == IF Is(w, p, "down") THEN Raise("URLError") ELSE Ok(Sheet(w, p))

\* fetch_excel(url) against a source that is up or down for the whole request
fetch_excel(w, p) == IF Is(w, p, "down") THEN Raise("RuntimeError") ELSE Ok(Sheet(w, p))

Retrieve(via, w, p) == IF via = "fetch_excel" THEN fetch_excel(w, p) ELSE read_excel(w, p)

\* df["platform"] = p
Tag(frame, p) ==
    [cols |-> frame.cols \cup {"platform"},
     rows |-> [j \in 1..Len(frame.rows) |-> [frame.rows[j] EXCEPT !.platform = p]]]

RECURSIVE Flatten(_)
Flatten(frames) == IF frames = <<>> THEN <<>>
                   ELSE frames[1].rows \o Flatten(Tail(frames))

\* pd.concat(dfs, ignore_index=True)
concat(frames) ==
    LET rows == Flatten(frames)
    IN [cols |-> UNION {frames[i].cols : i \in 1..Len(frames)},
        rows |-> [j \in 1..Len(rows) |-> [rows[j] EXCEPT !.index = j - 1]]]

RECURSIVE LoadEachSkipping(_, _, _, _, _)
\* the loop with a platform that fails to load skipped
LoadEachSkipping(via, w, ps, dfs, log) ==
    IF ps = <<>> THEN [kind |-> "return", exc |-> "none", dfs |-> dfs, log |-> log]
    ELSE LET r  == Retrieve(via, w, ps[1])
             lg == Append(log, [platform |-> ps[1], via |-> via])
         IN IF r.kind = "raise"
            THEN LoadEachSkipping(via, w, Tail(ps), dfs, lg)
            ELSE LoadEachSkipping(via, w, Tail(ps), Append(dfs, Tag(r.value, ps[1])), lg)

RECURSIVE LoadEach(_, _, _, _, _)
\* the loop over the platforms to load: stops at the first retrieval that
\* raises; log lists the retrievals made and the function that made them
LoadEach(via, w, ps, dfs, log) ==
    IF ps = <<>> THEN [kind |-> "return", exc |-> "none", dfs |-> dfs, log |-> log]
    ELSE LET r  == Retrieve(via, w, ps[1])
             lg == Append(log, [platform |-> ps[1], via |-> via])
         IN IF r.kind = "raise"
            THEN [kind |-> "raise", exc |-> r.exc, dfs |-> <<>>, log |-> lg]
            ELSE LoadEach(via, w, Tail(ps), Append(dfs, Tag(r.value, ps[1])), lg)

\* an unrecognized selector loading the first platform alone
SelectedFirstOnly(platform) ==
    IF platform \in PlatformSet THEN <<platform>>
    ELSE IF platform = "all" THEN Platforms ELSE <<Platforms[1]>>

\* the platforms a selector stands for
Selected(platform) == IF platform \in PlatformSet THEN <<platform>> ELSE Platforms

LoadWith(via, w, platform) ==
    LET r == LoadEach(via, w, Selected(platform), <<>>, <<>>)
    IN IF r.kind = "raise" THEN [kind |-> "raise", exc |-> r.exc, value |-> <<>>, log |-> r.log]
       ELSE [kind |-> "return", exc |-> "none", value |-> concat(r.dfs), log |-> r.log]

\* def load_data at line 55
load_data_55(w, platform) == LoadWith("fetch_excel", w, platform)

\* def load_data at line 86
load_data_86(w, platform) == LoadWith("read_excel", w, platform)

\* The def statements of the module in execution order; a later def rebinds
\* the name.
ModuleDefs == << [name |-> "make_session", line |-> 20],
                 [name |-> "fetch_excel", line |-> 41],
                 [name |-> "load_data", line |-> 55],
                 [name |-> "clean_hot_value", line |-> 72],
                 [name |-> "load_data", line |-> 86],
                 [name |-> "analyze", line |-> 104] >>

\* the definition a global name is bound to once the module has run
Lookup(name) ==
    LET is == {i \in 1..Len(ModuleDefs) : ModuleDefs[i].name = name}
    IN ModuleDefs[CHOOSE i \in is : \A k \in is : k <= i].line

\* the load_data that analyze calls
load_data(w, platform) ==
    IF Lookup("load_data") = 55 THEN load_data_55(w, platform)
    ELSE load_data_86(w, platform)

----------------------------------------------------------------------------
(* analyze: the query (lines 121-129)                                      *)

\* df["hot"].apply(clean_hot_value)
Cleaned(rows) == [j \in 1..Len(rows) |-> clean_hot_value(rows[j].hot)]

ApplyClean(rows) ==
    [j \in 1..Len(rows) |->
        [rows[j] EXCEPT !.hot = PyFloat(Cleaned(rows)[j].n, Cleaned(rows)[j].d)]]

\* df[df["hot"] >= 0]
IsNonNegative(r) == r.hot.n >= 0

\* df[df["hot"] > 0]
IsPositive(r) == r.hot.n > 0

KeepPositive(rows) == SelectSeq(rows, IsPositive)

Lower(c) == CASE c = "A" -> "a" [] c = "B" -> "b" [] c = "N" -> "n" [] OTHER -> c

\* one pattern character against one text character under re.IGNORECASE:
\* "." is the wildcard, every other character of the topics used is a literal
PatternCharMatches(q, c) == q = "." \/ Lower(q) = Lower(c)

\* re.search(pattern, text, flags=re.IGNORECASE)
search(pattern, text) ==
    \E off \in 0..(Len(text) - Len(pattern)) :
        \A i \in 1..Len(pattern) : PatternCharMatches(pattern[i], text[off + i])

\* .astype(str).str.contains(topic, case=False, na=False) for one title
contains(title, topic) == search(topic, str(title))

KeepTopic(rows, topic) == SelectSeq(rows, LAMBDA r : contains(r.title, topic))

\* a >= b for floats
Geq(a, b) == a.n * b.d >= b.n * a.d

RECURSIVE Arrangements(_)
\* every descending order of a set of rows: sort_values(ascending=False) with
\* the default sort kind leaves the order of equal magnitudes open
Arrangements(rs) ==
    IF rs = {} THEN {<<>>}
    ELSE LET top == {r \in rs : \A q \in rs : Geq(r.hot, q.hot)}
         IN UNION {{<<r>> \o rest : rest \in Arrangements(rs \ {r})} : r \in top}

sort_values(rows) == Arrangements({rows[j] : j \in 1..Len(rows)})

----------------------------------------------------------------------------
(* analyze: the intent branches (lines 132-157)                            *)

ReportHead == 10

DigestTitles == 5

Min(a, b) == IF a < b THEN a ELSE b

\* df.head(k) for k > 0
head(rows, k) == SubSeq(rows, 1, Min(k, Len(rows)))

\* df[["platform", "title", "hot"]].to_dict(orient="records")
to_dict(rows) ==
    [j \in 1..Len(rows) |->
        [platform |-> rows[j].platform, title |-> rows[j].title, hot |-> rows[j].hot]]

RECURSIVE MaxDen(_)
MaxDen(rows) == IF rows = <<>> THEN 1
                ELSE LET m == MaxDen(Tail(rows))
                     IN IF rows[1].hot.d > m THEN rows[1].hot.d ELSE m

RECURSIVE SumOver(_, _)
\* the sum of the magnitudes in units of 1/den
SumOver(rows, den) == IF rows = <<>> THEN 0
                      ELSE rows[1].hot.n * (den \div rows[1].hot.d) + SumOver(Tail(rows), den)

\* int(df_head["hot"].mean()) of a non-empty frame
mean_hot(rows) == SumOver(rows, MaxDen(rows)) \div (MaxDen(rows) * Len(rows))

Titles(rows) == [j \in 1..Len(rows) |-> rows[j].title]

\* ', '.join(top_titles[:5]) raises TypeError on an item that is no str
Joinable(titles) == \A j \in 1..Len(titles) : titles[j].kind = "str"

\* int(x) of the "limit" field
IntValid(x) == \/ x.kind = "int"
               \/ x.kind = "str" /\ x.s # <<>> /\ \A i \in 1..Len(x.s) : x.s[i] \in Digits

IntOf(x) == IF x.kind = "int" THEN x.n ELSE DigitsToNat(x.s)

\* the JSON bodies analyze returns
ErrorResponse(cause) ==
    [kind |-> "error", keys |-> {"error"}, cause |-> cause,
     data |-> <<>>, mean |-> 0, titles |-> <<>>]

DataResponse(records) ==
    [kind |-> "data", keys |-> {"message", "data"}, cause |-> "none",
     data |-> records, mean |-> 0, titles |-> <<>>]

NoDataResponse ==
    [kind |-> "nodata", keys |-> {"message", "raw_text"}, cause |-> "none",
     data |-> <<>>, mean |-> 0, titles |-> <<>>]

ReportResponse(m, ts) ==
    [kind |-> "report", keys |-> {"message", "raw_text"}, cause |-> "none",
     data |-> <<>>, mean |-> m, titles |-> ts]

NoResponse ==
    [kind |-> "none", keys |-> {}, cause |-> "none",
     data |-> <<>>, mean |-> 0, titles |-> <<>>]

NoFrame == [cols |-> {}, rows |-> <<>>]

\* The requests tried.
Intents == {"fetch_data", "generate_report", "export"}

Selectors == PlatformSet \cup {"all", "douyin"}

Topics == {<<>>, <<"a">>, <<"B">>, <<".">>}

Limits == {PyInt(k) : k \in -1..MaxLimit} \cup {PyStr(<<"x">>)}

Requests == [intent : Intents, platform : Selectors, topic : Topics, limit : Limits]

----------------------------------------------------------------------------
(* fetch_excel, step by step                                               *)

\* the adapter retries inside SESSION.get
GetRetries == /\ fpc \in {"get", "fallback_get"}
              /\ \E ev \in WireEvents :
                    /\ Retryable(ev)
                    /\ ~IsExhausted(Increment(fretry, ev))
                    /\ fretry' = Increment(fretry, ev)
              /\ UNCHANGED <<furl, fpc, fres, normVars, pipeVars>>

\* an attempt that ends the GET: a final response or an exhausted budget
\* (urllib3 1.x raises a TLS failure at once, urllib3 2.x retries it first)
Final(ev) == \/ ~Retryable(ev)
             \/ IsExhausted(Increment(fretry, ev))
             \/ ev.kind = "error" /\ ev.err \in TlsErrors

\* line 44-46: the try body returns the parsed frame
TryReturns == /\ fpc = "get"
              /\ \E ev \in WireEvents :
                    /\ Final(ev)
                    /\ TryBody(ev).kind = "return"
                    /\ fres' = TryBody(ev)
              /\ fpc' = "done"
              /\ UNCHANGED <<furl, fretry, normVars, pipeVars>>

\* line 47-49: SSLError in the try body starts the verify=False GET
ExceptSSLError == /\ fpc = "get"
                  /\ \E ev \in WireEvents :
                        /\ Final(ev)
                        /\ TryBody(ev).kind = "raise"
                        /\ TryBody(ev).exc = "SSLError"
                  /\ fpc' = "fallback_get"
                  /\ fretry' = NewRetry
                  /\ UNCHANGED <<furl, fres, normVars, pipeVars>>

\* line 52-53: any other exception of the try body is wrapped
ExceptException == /\ fpc = "get"
                   /\ \E ev \in WireEvents :
                         /\ Final(ev)
                         /\ TryBody(ev).kind = "raise"
                         /\ TryBody(ev).exc # "SSLError"
                         /\ fres' = FetchRaised("RuntimeError", platform_files(furl),
                                                TryBody(ev).exc)
                   /\ fpc' = "done"
                   /\ UNCHANGED <<furl, fretry, normVars, pipeVars>>

\* line 49-51: the handler's own statements; what they raise leaves
\* fetch_excel as it is, since no except clause encloses an except clause
FallbackEnds == /\ fpc = "fallback_get"
                /\ \E ev \in WireEvents :
                      /\ Final(ev)
                      /\ fres' = TryBody(ev)
                /\ fpc' = "done"
                /\ UNCHANGED <<furl, fretry, normVars, pipeVars>>


----------------------------------------------------------------------------
(* analyze, step by step; the except clause of line 159 ends every step    *)
(* that raises with the error body                                         *)

Fail(cause) == /\ resp' = ErrorResponse(cause)
               /\ pc' = "done"

\* lines 112-117: the request fields; int() of the limit
ParseRequest ==
    /\ pc = "start"
    /\ IF IntValid(req.limit)
       THEN /\ limit' = IntOf(req.limit)
            /\ pc' = "parsed"
            /\ UNCHANGED resp
       ELSE /\ Fail("ValueError")
            /\ UNCHANGED limit
    /\ UNCHANGED <<req, world, fetchLog, loaded, filtered, sorted, view>>
    /\ UNCHANGED <<normVars, fetchVars>>

\* line 120: df = load_data(platform)
LoadData ==
    /\ pc = "parsed"
    /\ LET r == load_data(world, req.platform)
       IN /\ fetchLog' = r.log
          /\ IF r.kind = "raise"
             THEN /\ Fail(r.exc)
                  /\ UNCHANGED loaded
             ELSE /\ loaded' = r.value
                  /\ pc' = "loaded"
                  /\ UNCHANGED resp
    /\ UNCHANGED <<req, world, limit, filtered, sorted, view>>
    /\ UNCHANGED <<normVars, fetchVars>>

\* lines 121-126: normalize, keep the positive, keep the topic
QueryRaises ==
    IF "hot" \notin loaded.cols THEN "KeyError"
    ELSE IF \E j \in 1..Len(loaded.rows) : Cleaned(loaded.rows)[j].kind = "raise"
         THEN "ValueError"
    ELSE IF req.topic # <<>> /\ "title" \notin loaded.cols THEN "KeyError"
    ELSE "none"

Filter(rows, topic) ==
    IF topic # <<>> THEN KeepTopic(KeepPositive(ApplyClean(rows)), topic)
    ELSE KeepPositive(ApplyClean(rows))

\* lines 121-129
Query ==
    /\ pc = "loaded"
    /\ IF QueryRaises # "none"
       THEN /\ Fail(QueryRaises)
            /\ UNCHANGED <<filtered, sorted>>
       ELSE /\ filtered' = Filter(loaded.rows, req.topic)
            /\ sorted' \in sort_values(filtered')
            /\ pc' = "sorted"
            /\ UNCHANGED resp
    /\ UNCHANGED <<req, world, limit, fetchLog, loaded, view>>
    /\ UNCHANGED <<normVars, fetchVars>>

\* df.tail(limit) in place of df.head(limit)
FetchDataViewTail ==
    IF limit > 0 /\ limit < Len(sorted)
    THEN SubSeq(sorted, Len(sorted) - limit + 1, Len(sorted)) ELSE sorted

\* lines 132-139: intent fetch_data
FetchDataView == IF limit > 0 THEN head(sorted, limit) ELSE sorted

FetchDataResponse ==
    IF "title" \notin loaded.cols THEN ErrorResponse("KeyError")
    ELSE DataResponse(to_dict(FetchDataView))

\* lines 141-154: intent generate_report
ReportView == head(sorted, ReportHead)

GenerateReportResponse ==
    IF ReportView = <<>> THEN NoDataResponse
    ELSE IF "title" \notin loaded.cols THEN ErrorResponse("KeyError")
    ELSE IF ~Joinable(head(Titles(ReportView), DigestTitles)) THEN ErrorResponse("TypeError")
    ELSE ReportResponse(mean_hot(ReportView), head(Titles(ReportView), DigestTitles))

\* lines 132-157
Respond ==
    /\ pc = "sorted"
    /\ pc' = "done"
    /\ IF req.intent = "fetch_data"
       THEN /\ view' = FetchDataView
            /\ resp' = FetchDataResponse
       ELSE IF req.intent = "generate_report"
       THEN /\ view' = ReportView
            /\ resp' = GenerateReportResponse
       ELSE /\ resp' = ErrorResponse("unknown intent")
            /\ UNCHANGED view
    /\ UNCHANGED <<req, world, limit, fetchLog, loaded, filtered, sorted>>
    /\ UNCHANGED <<normVars, fetchVars>>

----------------------------------------------------------------------------
(* Specifications                                                          *)

NormIdle == nx = Null /\ nres = Pending

FetchIdle == /\ furl = "none"
             /\ fpc = "done"
             /\ fretry = NewRetry
             /\ fres = FetchPending

PipeIdle == /\ req = [intent |-> "fetch_data", platform |-> "all",
                      topic |-> <<>>, limit |-> PyInt(0)]
            /\ world = [n |-> 0, variant |-> 0, badp |-> "none", badkind |-> "none"]
            /\ pc = "done"
            /\ limit = 0
            /\ fetchLog = <<>>
            /\ loaded = NoFrame
            /\ filtered = <<>>
            /\ sorted = <<>>
            /\ view = <<>>
            /\ resp = NoResponse

\* one request to /analyze against one state of the remote files
Init == /\ req \in Requests
        /\ world \in Worlds
        /\ pc = "start"
        /\ limit = 0
        /\ fetchLog = <<>>
        /\ loaded = NoFrame
        /\ filtered = <<>>
        /\ sorted = <<>>
        /\ view = <<>>
        /\ resp = NoResponse
        /\ NormIdle
        /\ FetchIdle

Next == \/ ParseRequest
        \/ LoadData
        \/ Query
        \/ Respond

Spec == Init /\ [][Next]_vars

\* one call of clean_hot_value
InitNorm == /\ nx \in NormInputs
            /\ nres = Pending
            /\ FetchIdle
            /\ PipeIdle

CallCleanHotValue == /\ nres.kind = "pending"
                     /\ nres' = clean_hot_value(nx)
                     /\ UNCHANGED <<nx, fetchVars, pipeVars>>

NextNorm == CallCleanHotValue

SpecNorm == InitNorm /\ [][NextNorm]_vars

\* one call of fetch_excel
InitFetch == /\ furl \in PlatformSet
             /\ fpc = "get"
             /\ fretry = NewRetry
             /\ fres = FetchPending
             /\ NormIdle
             /\ PipeIdle

NextFetch == \/ GetRetries
             \/ TryReturns
             \/ ExceptSSLError
             \/ ExceptException
             \/ FallbackEnds

SpecFetch == InitFetch /\ [][NextFetch]_vars

----------------------------------------------------------------------------
(* Claims                                                                  *)

\* C2: clean_hot_value never raises; every input yields a non-negative number.
C2_NeverRaises == nres.kind # "pending" => (nres.kind = "return" /\ nres.n >= 0)

\* C5: every call of fetch_excel ends by returning the parsed payload or by
\* raising the one wrapping error that carries the url and the cause.
C5_ReturnsOrSourceUnavailable ==
    fpc = "done" /\ fres.kind # "pending" =>
        \/ fres.kind = "return"
        \/ /\ fres.kind = "raise"
           /\ fres.exc = "RuntimeError"
           /\ fres.url = platform_files(furl)
           /\ fres.cause # "none"

\* the raw magnitude cell a row of the loaded frame was normalized from
RawOf(r) == loaded.rows[r.index + 1].hot

\* a row with a magnitude above 0 that comes from a cell holding a digit run
FromDigitRun(r) == /\ r.hot.n > 0
                   /\ ~isna(RawOf(r))
                   /\ findall(str(RawOf(r))) # <<>>

\* C1: every record of a view (the rows fetch_data returns, the rows handed
\* to the report, and the sorted frame both are cut from) has a magnitude
\* above 0, and none comes from a cell that is empty or holds no run of digits.
C1_ViewsArePositive ==
    /\ \A j \in 1..Len(sorted) : FromDigitRun(sorted[j])
    /\ \A j \in 1..Len(view) : FromDigitRun(view[j])
    /\ \A j \in 1..Len(resp.data) : resp.data[j].hot.n > 0

C1_Witness ==
    /\ pc = "done"
    /\ resp.kind = "data"
    /\ Len(view) >= 2
    /\ \E j \in 1..Len(loaded.rows) : isna(loaded.rows[j].hot)
    /\ \E j \in 1..Len(loaded.rows) :
          ~isna(loaded.rows[j].hot) /\ findall(str(loaded.rows[j].hot)) = <<>>

\* the platforms the request's selector stands for
SelectedSet == IF req.platform \in PlatformSet THEN {req.platform} ELSE PlatformSet

\* the request meets an exception or carries an unknown intent
MustFail ==
    \/ ~IntValid(req.limit)
    \/ \E p \in SelectedSet : Is(world, p, "down")
    \/ \E p \in SelectedSet : Is(world, p, "badnum") /\ RowCount(world, p) >= 1
    \/ req.platform \in PlatformSet /\ Is(world, req.platform, "nomag")
    \/ /\ req.platform \in PlatformSet /\ Is(world, req.platform, "notitle")
       /\ (req.topic # <<>> \/ req.intent = "fetch_data")
    \/ req.intent \notin {"fetch_data", "generate_report"}

\* C4: a request that meets an exception at any stage (limit, load, columns,
\* normalizer) or carries an unknown intent is answered by the error body:
\* a cause and no records, also when some platforms did load.
C4_FailuresAreStructuredErrors ==
    pc = "done" =>
        /\ resp.kind \in {"error", "data", "nodata", "report"}
        /\ MustFail => /\ resp.kind = "error"
                       /\ resp.keys = {"error"}
                       /\ resp.cause # "none"
                       /\ resp.data = <<>>
        /\ resp.kind = "error" => "data" \notin resp.keys /\ resp.data = <<>>

C4_Witness ==
    /\ pc = "done"
    /\ req.platform = "all"
    /\ req.intent = "fetch_data"
    /\ Is(world, "baidu", "down")
    /\ world.n >= 2
    /\ Len(fetchLog) = 3
    /\ resp.kind = "error"

\* C6: fetch_data with limit N returns the first min(N, |Q|) rows of Q in
\* descending order of magnitude when N > 0 and all of Q when N = 0, Q being
\* the rows that pass the magnitude and topic filters.
C6_LimitTakesTopOfSorted ==
    pc = "done" /\ req.intent = "fetch_data" /\ resp.kind = "data" =>
        LET N   == IntOf(req.limit)
            Q   == filtered
            got == {view[j].index : j \in 1..Len(view)}
        IN /\ resp.data = to_dict(view)
           /\ N > 0 => Len(view) = Min(N, Len(Q))
           /\ N = 0 => Len(view) = Len(Q)
           /\ Cardinality(got) = Len(view)
           /\ \A j \in 1..Len(view) : \E i \in 1..Len(Q) : Q[i] = view[j]
           /\ \A j \in 1..(Len(view) - 1) : Geq(view[j].hot, view[j + 1].hot)
           /\ \A i \in 1..Len(Q) :
                 Q[i].index \notin got => \A j \in 1..Len(view) : Geq(view[j].hot, Q[i].hot)

C6_Witness ==
    /\ pc = "done"
    /\ req.intent = "fetch_data"
    /\ resp.kind = "data"
    /\ limit = 2
    /\ Len(filtered) > 3
    /\ Len(resp.data) = 2
    /\ filtered[1].hot.n < filtered[3].hot.n

RECURSIVE RowsBefore(_, _)
\* the rows of the platforms listed before position k
RowsBefore(ps, k) == IF k = 1 THEN 0
                     ELSE RowsBefore(ps, k - 1) + RowCount(world, ps[k - 1])

\* C8: when every source loads, load_data returns for a known platform that
\* platform's rows alone, and for "all" or an unrecognized selector the rows
\* of every platform: as many rows as the files hold together, each tagged
\* with the platform it came from, each file's rows in the file's order.
C8_MergeTagsAndConcatenates ==
    /\ pc = "done" /\ IntValid(req.limit) /\ ~(\E p \in SelectedSet : Is(world, p, "down"))
          => loaded # NoFrame
    /\ loaded # NoFrame =>
        LET ps == IF req.platform \in PlatformSet THEN <<req.platform>> ELSE Platforms
        IN /\ Len(loaded.rows) = RowsBefore(ps, Len(ps) + 1)
           /\ \A k \in 1..Len(ps) : \A j \in 1..RowCount(world, ps[k]) :
                 LET r == loaded.rows[RowsBefore(ps, k) + j]
                 IN /\ r.platform = ps[k]
                    /\ r.title = Sheet(world, ps[k]).rows[j].title
                    /\ r.hot = Sheet(world, ps[k]).rows[j].hot

C8_Witness ==
    /\ pc = "loaded"
    /\ req.platform = "douyin"
    /\ world.variant = 1
    /\ world.n = 3
    /\ Len(loaded.rows) = 8
    /\ loaded.rows[4].platform = "toutiao"
    /\ loaded.rows[6].platform = "baidu"

\* topic occurs in text as a literal substring, letter case ignored
LiteralSubstring(topic, text) ==
    \E off \in 0..(Len(text) - Len(topic)) :
        \A i \in 1..Len(topic) : Lower(topic[i]) = Lower(text[off + i])

\* C3: with a topic, the rows kept are exactly the positive rows whose title
\* is a string holding the topic as a literal substring, case ignored; a
\* missing or non-string title is never kept.
C3_TopicIsLiteralSubstring ==
    pc = "sorted" /\ req.topic # <<>> =>
        {filtered[j].index : j \in 1..Len(filtered)}
          = {loaded.rows[i].index : i \in
               {i \in 1..Len(loaded.rows) :
                   /\ clean_hot_value(loaded.rows[i].hot).n > 0
                   /\ loaded.rows[i].title.kind = "str"
                   /\ LiteralSubstring(req.topic, loaded.rows[i].title.s)}}

\* C7: a string with the marker and a digit run normalizes to 10,000 times
\* the value of its first run of digits and dots, whatever follows; without
\* the marker, to the value of that run.
C7_MarkerScalesFirstRun ==
    /\ nres.kind # "pending"
    /\ nx.kind = "str"
    /\ \E i \in 1..Len(nx.s) : nx.s[i] \in Digits
    => /\ nres.kind = "return"
       /\ LET first == FloatOf(findall(nx.s)[1])
              times == IF HasMarker(nx.s) THEN 10000 ELSE 1
          IN nres.n * first.d = times * first.n * nres.d

\* the request reached the intent branch
Answered == /\ pc = "done"
            /\ IntValid(req.limit)
            /\ loaded # NoFrame
            /\ QueryRaises = "none"

\* C9: generate_report answers "no data" exactly when the view is empty, and
\* otherwise with the mean magnitude of the view's rows cut to an integer and
\* the first min(5, n) titles in the view's order.
C9_ReportSummarizesView ==
    Answered /\ req.intent = "generate_report" =>
        /\ resp.kind = "nodata" <=> view = <<>>
        /\ view # <<>> =>
              /\ resp.kind = "report"
              /\ LET D == MaxDen(view)
                     S == SumOver(view, D)
                 IN /\ resp.mean * D * Len(view) <= S
                    /\ S < (resp.mean + 1) * D * Len(view)
              /\ Len(resp.titles) = Min(DigestTitles, Len(view))
              /\ \A j \in 1..Len(resp.titles) : resp.titles[j] = view[j].title

\* C10: every retrieval made while analyze serves a request goes through
\* fetch_excel.
C10_EveryRetrievalViaFetcher ==
    \A i \in 1..Len(fetchLog) : fetchLog[i].via = "fetch_excel"

====
